---------------------------- MODULE Spec2Model ----------------------------
(***************************************************************************)
(* Promptly front end: the submission state machine of App.jsx, the form   *)
(* of Generator.jsx and the transport adapter of services/api.js.          *)
(*                                                                         *)
(* The state is React's component state (result, isLoading, error of App;  *)
(* formData of Generator) plus the promises returned by api.post that have *)
(* not settled yet.  An action is one handler run to its next suspension   *)
(* point: JavaScript runs a handler to completion, and the only await is   *)
(* the one on api.post inside generateContent, so the part of              *)
(* handleGenerate before the await is one step and the part after it       *)
(* (try/catch/finally) is another.                                         *)
(*                                                                         *)
(* Handlers are the program's entry points and are invoked in any state    *)
(* their own code accepts: the `disabled` attribute of the submit button   *)
(* is rendering output (SubmitDisabled below), not a guard in a handler.   *)
(***************************************************************************)
EXTENDS Integers, Sequences, FiniteSets, TLC

VARIABLES
    formData,    \* Generator.jsx: useState({text, platform, ...})
    result,      \* App.jsx: useState(null)
    isLoading,   \* App.jsx: useState(false)
    error,       \* App.jsx: useState(null)
    pending,     \* call id -> payload of every api.post promise not settled yet
    issued,      \* number of api.post('/generate') calls made so far
    log,         \* history: the state publications, in order, per call
    alertCount,  \* number of alert() dialogs handleSubmit has shown
    nEvents,     \* number of change and submit events handled so far
    healthIssued,  \* number of checkHealth() calls made so far
    healthLog    \* history: what each completed checkHealth() got and gave back

healthVars == <<healthIssued, healthLog>>

vars == <<formData, result, isLoading, error, pending, issued, log,
          alertCount, nEvents, healthIssued, healthLog>>

---------------------------------------------------------------------------
(* Bounds of the model.                                                    *)
MaxEvents == 4
MaxProbes == 3

(* The ids a call can have: one call per submit event at most.             *)
CallIds == 1..MaxEvents

---------------------------------------------------------------------------
(* JavaScript values.  null/undefined is the empty tuple and a present     *)
(* value v is <<v>>, so that the two compare.                              *)
Null == <<>>
Some(v) == <<v>>
IsNull(x) == x = <<>>
Val(x) == x[1]

(* A string the user types is a sequence of characters; " " stands for     *)
(* the white space String.prototype.trim removes.                          *)
Texts == {<<>>, <<" ">>, <<" ", " ">>, <<"a">>, <<" ", "a", " ">>}
IsSpace(c) == c = " "

RECURSIVE TrimStart(_)
TrimStart(s) ==
    IF s # <<>> /\ IsSpace(Head(s)) THEN TrimStart(Tail(s)) ELSE s

RECURSIVE TrimEnd(_)
TrimEnd(s) ==
    IF s # <<>> /\ IsSpace(s[Len(s)]) THEN TrimEnd(SubSeq(s, 1, Len(s) - 1)) ELSE s

Trim(s) == TrimEnd(TrimStart(s))

(* a || b on strings: a when it is present and non-empty, else b.          *)
OrElse(a, b) == IF ~IsNull(a) /\ Val(a) # "" THEN Val(a) ELSE b

---------------------------------------------------------------------------
(* Generator.jsx                                                           *)
platforms == {"General", "Instagram", "LinkedIn", "YouTube Script"}

(* temperature is kept in tenths (0.7 is 7); max_tokens is the number      *)
(* typed, or Null when the number field has been cleared.                  *)
initialFormData ==
    [text |-> <<>>, platform |-> "General", temperature |-> 7,
     max_tokens |-> Some(256), use_legacy |-> FALSE]

TemperatureInputs == {-3, 7, 17}
MaxTokensInputs == {Null, Some(10), Some(256), Some(2000)}

(* The change events e.target can carry: {name, value, type, checked}.     *)
TextEvents ==
    {[name |-> "text", type |-> "textarea", value |-> t, checked |-> FALSE] :
        t \in Texts}
PlatformEvents ==
    {[name |-> "platform", type |-> "select-one", value |-> p, checked |-> FALSE] :
        p \in platforms}
TemperatureEvents ==
    {[name |-> "temperature", type |-> "range", value |-> v, checked |-> FALSE] :
        v \in TemperatureInputs}
MaxTokensEvents ==
    {[name |-> "max_tokens", type |-> "number", value |-> v, checked |-> FALSE] :
        v \in MaxTokensInputs}
LegacyEvents ==
    {[name |-> "use_legacy", type |-> "checkbox", value |-> "on", checked |-> b] :
        b \in BOOLEAN}

SetField(prev, e) ==
    [prev EXCEPT ![e.name] = IF e.type = "checkbox" THEN e.checked ELSE e.value]

IsBlankNoTrim(text) == text = <<>>
IsBlank(text) == Trim(text) = <<>>

SubmitDisabled == isLoading \/ IsBlank(formData.text)

---------------------------------------------------------------------------
(* services/api.js: what api.post('/generate', payload) settles with.      *)
Bodies ==
    {[content |-> "New drop!", intent |-> "promotional", sentiment |-> "positive",
      documents |-> <<"d1">>, time_taken |-> 8, fallback_used |-> FALSE,
      reason |-> Null],
     [content |-> "fallback text", intent |-> "informational", sentiment |-> "neutral",
      documents |-> <<>>, time_taken |-> 0, fallback_used |-> TRUE,
      reason |-> Some("model timeout")]}

Fulfilled ==
    {[settled |-> "fulfilled",
      response |-> [status |-> 200, statusText |-> "OK", data |-> b]] : b \in Bodies}

ErrorData ==
    {Null, Some([message |-> Null]), Some([message |-> Some("")]),
     Some([message |-> Some("model unavailable")])}

(* The server answered with a status outside 2xx.                          *)
RejectedResponse ==
    {[settled |-> "rejected",
      error |-> [response |-> Some([status |-> 500,
                                    statusText |-> "Internal Server Error",
                                    data |-> d]),
                 request |-> TRUE, message |-> "Request failed with status code 500"]] :
        d \in ErrorData}

(* The request was sent and no response came: connection refused, or the   *)
(* 60000 ms timeout of the axios instance.                                 *)
RejectedRequest ==
    {[settled |-> "rejected",
      error |-> [response |-> Null, request |-> TRUE, message |-> m]] :
        m \in {"timeout of 60000ms exceeded", "Network Error"}}

(* The request was never dispatched.                                       *)
RejectedSetup ==
    {[settled |-> "rejected",
      error |-> [response |-> Null, request |-> FALSE,
                 message |-> "Converting circular structure to JSON"]]}

Outcomes == Fulfilled \cup RejectedResponse \cup RejectedRequest \cup RejectedSetup

NetworkErrorMessage ==
    "Network Error: Unable to connect to server. Please check if backend is running."

(* Variants of generateContent, each with one plausible slip.              *)
(* `return response` for `return response.data`.                           *)
GenerateContentWholeResponse(o) ==
    IF o.settled = "fulfilled"
    THEN [returned |-> TRUE, value |-> o.response]
    ELSE IF ~IsNull(o.error.response)
    THEN [returned |-> FALSE,
          message |-> "API Error: " \o
              OrElse(IF IsNull(Val(o.error.response).data) THEN Null
                     ELSE Val(Val(o.error.response).data).message,
                     Val(o.error.response).statusText)]
    ELSE IF o.error.request
    THEN [returned |-> FALSE, message |-> NetworkErrorMessage]
    ELSE [returned |-> FALSE, message |-> "Request Error: " \o o.error.message]

(* error.request tested before error.response.                             *)
GenerateContentRequestFirst(o) ==
    IF o.settled = "fulfilled"
    THEN [returned |-> TRUE, value |-> o.response.data]
    ELSE IF o.error.request
    THEN [returned |-> FALSE, message |-> NetworkErrorMessage]
    ELSE IF ~IsNull(o.error.response)
    THEN [returned |-> FALSE,
          message |-> "API Error: " \o
              OrElse(IF IsNull(Val(o.error.response).data) THEN Null
                     ELSE Val(Val(o.error.response).data).message,
                     Val(o.error.response).statusText)]
    ELSE [returned |-> FALSE, message |-> "Request Error: " \o o.error.message]

(* The body's message dropped: the status text alone.                      *)
GenerateContentStatusText(o) ==
    IF o.settled = "fulfilled"
    THEN [returned |-> TRUE, value |-> o.response.data]
    ELSE IF ~IsNull(o.error.response)
    THEN [returned |-> FALSE,
          message |-> "API Error: " \o Val(o.error.response).statusText]
    ELSE IF o.error.request
    THEN [returned |-> FALSE, message |-> NetworkErrorMessage]
    ELSE [returned |-> FALSE, message |-> "Request Error: " \o o.error.message]

(* A body flagged fallback_used thrown as an error.                         *)
GenerateContentFallbackThrows(o) ==
    IF o.settled = "fulfilled"
    THEN IF o.response.data.fallback_used
         THEN [returned |-> FALSE,
               message |-> "API Error: " \o OrElse(o.response.data.reason, "fallback")]
         ELSE [returned |-> TRUE, value |-> o.response.data]
    ELSE IF ~IsNull(o.error.response)
    THEN [returned |-> FALSE,
          message |-> "API Error: " \o
              OrElse(IF IsNull(Val(o.error.response).data) THEN Null
                     ELSE Val(Val(o.error.response).data).message,
                     Val(o.error.response).statusText)]
    ELSE IF o.error.request
    THEN [returned |-> FALSE, message |-> NetworkErrorMessage]
    ELSE [returned |-> FALSE, message |-> "Request Error: " \o o.error.message]

(* generateContent from the settlement of api.post on: what it returns     *)
(* (returned |-> TRUE) or the Error it throws.                             *)
GenerateContent(o) ==
    IF o.settled = "fulfilled"
    THEN [returned |-> TRUE, value |-> o.response.data]
    ELSE IF ~IsNull(o.error.response)
    THEN [returned |-> FALSE,
          message |-> "API Error: " \o
              OrElse(IF IsNull(Val(o.error.response).data) THEN Null
                     ELSE Val(Val(o.error.response).data).message,
                     Val(o.error.response).statusText)]
    ELSE IF o.error.request
    THEN [returned |-> FALSE, message |-> NetworkErrorMessage]
    ELSE [returned |-> FALSE, message |-> "Request Error: " \o o.error.message]

(* What api.get('/health') settles with.  axios fulfils a response whose   *)
(* status is 2xx and rejects any other.                                    *)
HealthFulfilled ==
    {[settled |-> "fulfilled", response |-> [status |-> st]] : st \in {200, 204}}

HealthRejected ==
    {[settled |-> "rejected",
      error |-> [response |-> Some([status |-> 503]), request |-> TRUE]],
     [settled |-> "rejected", error |-> [response |-> Null, request |-> TRUE]],
     [settled |-> "rejected", error |-> [response |-> Null, request |-> FALSE]]}

HealthOutcomes == HealthFulfilled \cup HealthRejected

(* Variant of checkHealth: any fulfilled response counts as healthy.       *)
CheckHealthAnyResponse(o) ==
    IF o.settled = "fulfilled"
    THEN [threw |-> FALSE, value |-> TRUE]
    ELSE [threw |-> FALSE, value |-> FALSE]

(* checkHealth from the settlement of api.get on: the boolean it returns,  *)
(* or threw |-> TRUE were an error to leave the function.                  *)
CheckHealth(o) ==
    IF o.settled = "fulfilled"
    THEN [threw |-> FALSE, value |-> o.response.status = 200]
    ELSE [threw |-> FALSE, value |-> FALSE]

---------------------------------------------------------------------------
(* App.jsx                                                                 *)
Init ==
    /\ formData = initialFormData
    /\ result = Null
    /\ isLoading = FALSE
    /\ error = Null
    /\ pending = <<>>
    /\ issued = 0
    /\ log = <<>>
    /\ alertCount = 0
    /\ nEvents = 0
    /\ healthIssued = 0
    /\ healthLog = <<>>

(* handleGenerate up to its await: the three setters, then the call.       *)
HandleGenerate(fd) ==
    /\ isLoading' = TRUE
    /\ error' = Null
    /\ result' = Null
    /\ issued' = issued + 1
    /\ pending' = (issued + 1 :> fd) @@ pending
    /\ log' = Append(log, [call |-> issued + 1, ev |-> "Loading"])
    /\ UNCHANGED <<formData, alertCount>>
    /\ UNCHANGED healthVars

(* Variants of the code after the await, each with one plausible slip.     *)
(* setIsLoading(false) at the end of the try block, not in finally.        *)
ResumeNoFinally(c, o) ==
    LET r == GenerateContent(o) IN
    /\ c \in DOMAIN pending
    /\ IF r.returned
       THEN result' = Some(r.value) /\ isLoading' = FALSE /\ UNCHANGED error
       ELSE error' = Some(r.message) /\ UNCHANGED <<result, isLoading>>
    /\ pending' = [d \in DOMAIN pending \ {c} |-> pending[d]]
    /\ log' = Append(log, [call |-> c, ev |-> IF r.returned THEN "Success" ELSE "Failure"])
    /\ UNCHANGED <<formData, issued, alertCount, nEvents>>
    /\ UNCHANGED healthVars

(* A catch block that only writes to the console.                          *)
ResumeSwallow(c, o) ==
    LET r == GenerateContent(o) IN
    /\ c \in DOMAIN pending
    /\ IF r.returned
       THEN /\ result' = Some(r.value)
            /\ log' = Append(log, [call |-> c, ev |-> "Success"])
       ELSE UNCHANGED <<result, log>>
    /\ UNCHANGED error
    /\ isLoading' = FALSE
    /\ pending' = [d \in DOMAIN pending \ {c} |-> pending[d]]
    /\ UNCHANGED <<formData, issued, alertCount, nEvents>>
    /\ UNCHANGED healthVars

(* A catch block that sends the same payload once more.                    *)
ResumeRetry(c, o) ==
    LET r == GenerateContent(o) IN
    /\ c \in DOMAIN pending
    /\ IF r.returned
       THEN /\ result' = Some(r.value)
            /\ pending' = [d \in DOMAIN pending \ {c} |-> pending[d]]
            /\ UNCHANGED <<error, issued>>
       ELSE /\ error' = Some(r.message)
            /\ issued' = issued + 1
            /\ pending' = (issued + 1 :> pending[c])
                             @@ [d \in DOMAIN pending \ {c} |-> pending[d]]
            /\ UNCHANGED result
    /\ isLoading' = FALSE
    /\ log' = Append(log, [call |-> c, ev |-> IF r.returned THEN "Success" ELSE "Failure"])
    /\ UNCHANGED <<formData, alertCount, nEvents>>
    /\ UNCHANGED healthVars

(* handleGenerate after the await, for call c settling with o.             *)
Resume(c, o) ==
    LET r == GenerateContent(o) IN
    /\ c \in DOMAIN pending
    /\ IF r.returned
       THEN result' = Some(r.value) /\ UNCHANGED error
       ELSE error' = Some(r.message) /\ UNCHANGED result
    /\ isLoading' = FALSE
    /\ pending' = [d \in DOMAIN pending \ {c} |-> pending[d]]
    /\ log' = Append(log, [call |-> c, ev |-> IF r.returned THEN "Success" ELSE "Failure"])
    /\ UNCHANGED <<formData, issued, alertCount, nEvents>>
    /\ UNCHANGED healthVars

(* Variants of handleReset.  The dismiss button only clears the banner.    *)
HandleResetErrorOnly ==
    /\ error' = Null
    /\ UNCHANGED <<formData, result, isLoading, pending, issued, log, alertCount,
                   nEvents>>
    /\ UNCHANGED healthVars

(* The reset also ends Loading.                                            *)
HandleResetStopsLoading ==
    /\ result' = Null
    /\ error' = Null
    /\ isLoading' = FALSE
    /\ UNCHANGED <<formData, pending, issued, log, alertCount, nEvents>>
    /\ UNCHANGED healthVars

HandleReset ==
    /\ result' = Null
    /\ error' = Null
    /\ UNCHANGED <<formData, isLoading, pending, issued, log, alertCount, nEvents>>
    /\ UNCHANGED healthVars

(* Variant of handleInputChange: the object handed to onGenerate is        *)
(* written in place, so a payload in flight follows the form.              *)
HandleInputChangeInPlace ==
    /\ nEvents < MaxEvents
    /\ \E e \in TextEvents \cup PlatformEvents \cup TemperatureEvents
                \cup MaxTokensEvents \cup LegacyEvents :
          /\ formData' = SetField(formData, e)
          /\ pending' = [c \in DOMAIN pending |-> SetField(pending[c], e)]
    /\ nEvents' = nEvents + 1
    /\ UNCHANGED <<result, isLoading, error, issued, log, alertCount>>
    /\ UNCHANGED healthVars

HandleInputChange ==
    /\ nEvents < MaxEvents
    /\ \E e \in TextEvents \cup PlatformEvents \cup TemperatureEvents
                \cup MaxTokensEvents \cup LegacyEvents :
          formData' = SetField(formData, e)
    /\ nEvents' = nEvents + 1
    /\ UNCHANGED <<result, isLoading, error, pending, issued, log, alertCount>>
    /\ UNCHANGED healthVars

(* Variant of the blank branch of handleSubmit: the refusal is shown in    *)
(* the error banner, not in an alert.                                      *)
HandleSubmitBlockedAsFailure ==
    /\ IsBlank(formData.text)
    /\ nEvents < MaxEvents
    /\ nEvents' = nEvents + 1
    /\ error' = Some("Request Error: Please enter some text")
    /\ result' = Null
    /\ UNCHANGED <<formData, isLoading, pending, issued, log, alertCount>>
    /\ UNCHANGED healthVars

(* handleSubmit with a blank text: alert(), which returns when the user    *)
(* closes the dialog, then return.  Nothing else runs in between.          *)
HandleSubmitBlocked ==
    /\ IsBlank(formData.text)
    /\ nEvents < MaxEvents
    /\ nEvents' = nEvents + 1
    /\ alertCount' = alertCount + 1
    /\ UNCHANGED <<formData, result, isLoading, error, pending, issued, log>>
    /\ UNCHANGED healthVars

HandleSubmitAccepted ==
    /\ ~IsBlank(formData.text)
    /\ nEvents < MaxEvents
    /\ nEvents' = nEvents + 1
    /\ HandleGenerate(formData)

HandleSubmit == HandleSubmitBlocked \/ HandleSubmitAccepted

Settle == \E c \in CallIds : \E o \in Outcomes : Resume(c, o)

Next ==
    \/ HandleInputChange
    \/ HandleSubmit
    \/ HandleReset
    \/ Settle

Spec == Init /\ [][Next]_vars

(* checkHealth reads and writes no component state and nothing in App or   *)
(* Generator calls it, so its probes are explored in a specification of    *)
(* their own, beside an application that stands still.                     *)
appVars == <<formData, result, isLoading, error, pending, issued, log,
             alertCount, nEvents>>

(* checkHealth up to its await: api.get('/health') is sent.                *)
CheckHealthCall ==
    /\ healthIssued < MaxProbes
    /\ healthIssued' = healthIssued + 1
    /\ UNCHANGED <<healthLog, appVars>>

(* checkHealth after the await, api.get having settled with o.             *)
CheckHealthSettle ==
    /\ Len(healthLog) < healthIssued
    /\ \E o \in HealthOutcomes :
          healthLog' = Append(healthLog, [outcome |-> o, completion |-> CheckHealth(o)])
    /\ UNCHANGED <<healthIssued, appVars>>

HealthNext ==
    \/ CheckHealthCall
    \/ CheckHealthSettle

HealthSpec == Init /\ [][HealthNext]_vars

(* Every call made settles: axios rejects a request that got no response   *)
(* within the instance's 60000 ms timeout.                                 *)
FairSpec == Spec /\ \A c \in CallIds : WF_vars(\E o \in Outcomes : Resume(c, o))

---------------------------------------------------------------------------
(* Vocabulary of the properties.                                           *)
InFlight == DOMAIN pending
Settled(c) == c \in 1..issued /\ c \notin DOMAIN pending
SettlesNow(c) == c \in DOMAIN pending /\ c \notin DOMAIN pending'
WhitespaceOnly(t) == \A i \in 1..Len(t) : t[i] = " "
Clamp(v, lo, hi) == IF v < lo THEN lo ELSE IF v > hi THEN hi ELSE v

(* What call c has published so far, in order.                             *)
EventsOf(l, c) ==
    LET mine == SelectSeq(l, LAMBDA e : e.call = c)
    IN  [i \in 1..Len(mine) |-> mine[i].ev]

(* The state has the shape of exactly one member of SubmissionState.       *)
IsIdle == ~isLoading /\ IsNull(result) /\ IsNull(error)
IsLoadingOnly == isLoading /\ IsNull(result) /\ IsNull(error)
IsSuccess == ~isLoading /\ ~IsNull(result) /\ IsNull(error)
IsFailure == ~isLoading /\ IsNull(result) /\ ~IsNull(error)

---------------------------------------------------------------------------
(* C1: at most one remote generate call is in flight at any time, whatever *)
(* the sequence of submits and settlements, a submit during Loading        *)
(* included: handleGenerate guards re-entrancy by itself.                  *)
C1_AtMostOneInFlight == Cardinality(InFlight) <= 1

(* C2: with submit(A) then submit(B) before A settles, the state after     *)
(* both have settled reflects B's outcome only, in every order of          *)
(* settlement: a call settling after a newer one has settled leaves result *)
(* and error alone, and once the last call in flight has settled the state *)
(* is the Success or the Failure of the newest submission.                 *)
C2_LastSubmissionWins ==
    [][\A c \in CallIds :
          SettlesNow(c) =>
            /\ (\E d \in (c + 1)..issued : Settled(d)) => UNCHANGED <<result, error>>
            /\ DOMAIN pending' = {} =>
                 IF EventsOf(log', issued) = <<"Loading", "Success">>
                 THEN IsSuccess' ELSE IsFailure']_vars

(* C3: exactly one member of SubmissionState is active: at most one of     *)
(* isLoading, result non-null, error non-null holds.                       *)
C3_OneActiveMember ==
    /\ ~(isLoading /\ ~IsNull(result))
    /\ ~(isLoading /\ ~IsNull(error))
    /\ ~(~IsNull(result) /\ ~IsNull(error))

(* C4: a submit whose text is empty or only white space makes no remote    *)
(* call: no step taken from a state whose text is such changes the number  *)
(* of calls issued, and handleSubmit accepts only a text that is not.      *)
C4_BlankSubmitMakesNoCall ==
    [][/\ WhitespaceOnly(formData.text) => issued' = issued
       /\ HandleSubmit /\ WhitespaceOnly(formData.text) =>
            /\ alertCount' = alertCount + 1
            /\ UNCHANGED <<formData, result, isLoading, error, pending, log>>]_vars

C4_Witness ==
    /\ alertCount = 1
    /\ formData.text = <<" ", " ">>
    /\ issued = 1

(* C5: each submission publishes Loading first and then exactly one        *)
(* terminal state: a call in flight has published Loading and nothing      *)
(* else, a settled call Loading followed by one Success or one Failure,    *)
(* nothing is published for a call not made, and each publication is the   *)
(* state change it names, one at a time.                                   *)
C5_LoadingThenOneTerminal ==
    /\ [](\A c \in 1..issued :
            IF c \in InFlight
            THEN EventsOf(log, c) = <<"Loading">>
            ELSE EventsOf(log, c) \in
                   {<<"Loading", "Success">>, <<"Loading", "Failure">>})
    /\ [](\A i \in 1..Len(log) : log[i].call \in 1..issued)
    /\ [][log' # log =>
            /\ Len(log') = Len(log) + 1
            /\ SubSeq(log', 1, Len(log)) = log
            /\ LET e == log'[Len(log')]
               IN  CASE e.ev = "Loading" -> IsLoadingOnly' /\ e.call \in InFlight'
                     [] e.ev = "Success" -> ~IsNull(result') /\ ~isLoading' /\ SettlesNow(e.call)
                     [] e.ev = "Failure" -> ~IsNull(error') /\ ~isLoading' /\ SettlesNow(e.call)]_vars
    /\ [][\A c \in CallIds : SettlesNow(c) => Len(log') = Len(log) + 1]_vars

C5_Witness ==
    /\ issued = 2
    /\ InFlight = {}
    /\ EventsOf(log, 1) = <<"Loading", "Failure">>
    /\ EventsOf(log, 2) = <<"Loading", "Success">>
    /\ log[2].call = 2

(* C6: a submission that enters Loading leaves it: under the fairness of   *)
(* FairSpec every call in flight settles and isLoading becomes false       *)
(* again; Loading is never shown without a call in flight to end it; and a *)
(* call that got no response (the 60 s timeout included) ends in the       *)
(* Failure carrying the network error message.                             *)
C6_LoadingEnds ==
    /\ \A c \in CallIds : (c \in InFlight) ~> Settled(c)
    /\ isLoading ~> ~isLoading
    /\ [](isLoading => InFlight # {})
    /\ [][\A c \in CallIds : \A o \in RejectedRequest :
            Resume(c, o) =>
              /\ ~isLoading'
              /\ error' = Some(NetworkErrorMessage)
              /\ EventsOf(log', c) = <<"Loading", "Failure">>]_vars

C6_Witness ==
    /\ issued = 1
    /\ InFlight = {}
    /\ IsFailure
    /\ error = Some(NetworkErrorMessage)

(* The three kinds of GenerationError, as the message of the thrown Error  *)
(* tells them apart, and "Raw" for a message that is none of them.         *)
ServerDetails ==
    {Val(o.error.response).statusText : o \in RejectedResponse}
    \cup {Val(Val(Val(o.error.response).data).message) :
            o \in {p \in RejectedResponse :
                     /\ ~IsNull(Val(p.error.response).data)
                     /\ ~IsNull(Val(Val(p.error.response).data).message)}}

KindOf(msg) ==
    IF msg \in {"API Error: " \o d : d \in ServerDetails} THEN "ServerError"
    ELSE IF msg = NetworkErrorMessage THEN "NetworkError"
    ELSE IF msg \in {"Request Error: " \o o.error.message : o \in RejectedSetup}
    THEN "ClientError"
    ELSE "Raw"

KindDue(o) ==
    IF o \in RejectedResponse THEN "ServerError"
    ELSE IF o \in RejectedRequest THEN "NetworkError"
    ELSE "ClientError"

(* C7: every failure of generateContent reaches the orchestrator as one of *)
(* the three kinds and never as the transport's own error: ServerError for *)
(* a response with a failure status, NetworkError for a request without a  *)
(* response, ClientError for a failure before the request was sent.        *)
C7_FailureKinds ==
    [][\A c \in CallIds : \A o \in Outcomes \ Fulfilled :
          SettlesNow(c) /\ Resume(c, o) =>
            /\ ~IsNull(error')
            /\ KindOf(Val(error')) = KindDue(o)
            /\ Val(error') # o.error.message
            /\ result' = result]_vars

C7_Witness ==
    /\ issued = 2
    /\ InFlight = {}
    /\ ~IsNull(error)
    /\ KindOf(Val(error)) = "ClientError"
    /\ EventsOf(log, 1) = <<"Loading", "Failure">>
    /\ EventsOf(log, 2) = <<"Loading", "Failure">>

(* The message field of an error body, or Null when there is no body or no *)
(* such field.                                                             *)
BodyMessage(o) ==
    IF IsNull(Val(o.error.response).data) THEN Null
    ELSE Val(Val(o.error.response).data).message

(* C8 as stated: after a response with a failure status the message of the *)
(* Failure state is exactly the body's message field when present, and the *)
(* HTTP status text otherwise.                                             *)
C8_MessageExact ==
    [][\A c \in CallIds : \A o \in RejectedResponse :
          SettlesNow(c) /\ Resume(c, o) =>
            error' = Some(IF ~IsNull(BodyMessage(o)) THEN Val(BodyMessage(o))
                          ELSE Val(o.error.response).statusText)]_vars

(* C8 as amended: the message of the Failure state is "API Error: "        *)
(* followed by the body's message field when that is present and not       *)
(* empty, and by the HTTP status text otherwise.                           *)
C8_MessagePrefixed ==
    [][\A c \in CallIds : \A o \in RejectedResponse :
          SettlesNow(c) /\ Resume(c, o) =>
            error' = Some("API Error: " \o
                          (IF ~IsNull(BodyMessage(o)) /\ Val(BodyMessage(o)) # ""
                           THEN Val(BodyMessage(o))
                           ELSE Val(o.error.response).statusText))]_vars

C8_Witness ==
    /\ issued = 1
    /\ IsFailure
    /\ error = Some("API Error: model unavailable")

(* C9: a successful settlement publishes the decoded response body itself, *)
(* every field as received: result is response.data, Loading ends, error   *)
(* is left as it was, and when nothing else was published since this       *)
(* call's Loading the state is the Success of that body alone.             *)
C9_ResultIsBody ==
    [][\A c \in CallIds : \A o \in Fulfilled :
          SettlesNow(c) /\ Resume(c, o) =>
            /\ result' = Some(o.response.data)
            /\ DOMAIN Val(result') =
                 {"content", "intent", "sentiment", "documents", "time_taken",
                  "fallback_used", "reason"}
            /\ ~isLoading'
            /\ error' = error
            /\ log[Len(log)] = [call |-> c, ev |-> "Loading"] => IsSuccess']_vars

C9_Witness ==
    /\ issued = 1
    /\ IsSuccess
    /\ Val(result).fallback_used
    /\ Val(result).reason = Some("model timeout")
    /\ Val(result).documents = <<>>

(* C10: the payload sent carries the form's temperature clamped to [0,1]   *)
(* (in tenths, [0,10]) and its max_tokens clamped to [50,1024]; a value in *)
(* range is sent as it is.                                                 *)
C10_PayloadClamped ==
    [][issued' = issued + 1 =>
         /\ pending'[issued'].temperature = Clamp(formData.temperature, 0, 10)
         /\ ~IsNull(formData.max_tokens) =>
              pending'[issued'].max_tokens = Some(Clamp(Val(formData.max_tokens), 50, 1024))]_vars

(* C11: checkHealth never throws and answers true only for a /health      *)
(* response of status exactly 200: false for any other status, another    *)
(* 2xx included, and for every failure of the transport.                   *)
C11_HealthOnlyOn200 ==
    \A i \in 1..Len(healthLog) :
       LET o == healthLog[i].outcome
           r == healthLog[i].completion
       IN  /\ ~r.threw
           /\ r.value \in BOOLEAN
           /\ r.value <=> (o.settled = "fulfilled" /\ o.response.status = 200)

C11_Witness ==
    /\ Len(healthLog) = 3
    /\ healthLog[1].outcome = [settled |-> "fulfilled", response |-> [status |-> 204]]
    /\ ~healthLog[1].completion.value
    /\ healthLog[2].outcome \in HealthRejected
    /\ ~IsNull(healthLog[2].outcome.error.response)
    /\ Val(healthLog[2].outcome.error.response).status = 503
    /\ ~healthLog[2].completion.value
    /\ healthLog[3].outcome = [settled |-> "fulfilled", response |-> [status |-> 200]]
    /\ healthLog[3].completion.value

(* C12: reset clears a Success or a Failure back to Idle and is           *)
(* idempotent: it leaves result and error null and touches nothing else,   *)
(* so a second reset right after it, or a reset from Idle, changes         *)
(* nothing.                                                                *)
C12_ResetIdempotent ==
    /\ []((IsSuccess \/ IsFailure \/ IsIdle) => ENABLED (HandleReset /\ IsIdle'))
    /\ [](ENABLED (HandleReset /\ IsNull(result') /\ IsNull(error')))
    /\ [][HandleReset =>
            /\ IsNull(result') /\ IsNull(error')
            /\ UNCHANGED <<isLoading, formData, pending, issued, log, alertCount,
                           nEvents>>
            /\ (IsSuccess \/ IsFailure \/ IsIdle) => IsIdle'
            /\ (IsNull(result) /\ IsNull(error)) => UNCHANGED vars]_vars

C12_Witness ==
    /\ issued = 1
    /\ InFlight = {}
    /\ EventsOf(log, 1) = <<"Loading", "Success">>
    /\ IsIdle

(* C13: the core never retries.  The number of calls issued changes only   *)
(* in a step of handleSubmit on a text that is not blank, and then by one  *)
(* call, in flight with that submit; a settlement, of whatever kind of     *)
(* failure, issues none and only takes its own call out of flight.         *)
C13_NoRetry ==
    /\ [][issued' # issued =>
            /\ HandleSubmit
            /\ ~WhitespaceOnly(formData.text)
            /\ nEvents' = nEvents + 1
            /\ issued' = issued + 1
            /\ DOMAIN pending' = DOMAIN pending \cup {issued'}]_vars
    /\ [][HandleSubmit /\ ~WhitespaceOnly(formData.text) => issued' = issued + 1]_vars
    /\ [][\A c \in CallIds : \A o \in Outcomes \ Fulfilled :
            SettlesNow(c) /\ Resume(c, o) =>
              /\ issued' = issued
              /\ DOMAIN pending' = DOMAIN pending \ {c}]_vars
    /\ [](issued <= nEvents)

C13_Witness ==
    /\ issued = 1
    /\ InFlight = {}
    /\ IsFailure
    /\ KindOf(Val(error)) = "ServerError"
    /\ nEvents = 4
    /\ alertCount = 0
    /\ Len(log) = 2

(* C14: a submit of an empty or white-space text is refused at the form:   *)
(* the refusal is the alert, and isLoading, result, error, the calls and    *)
(* what was published stay as they were, so a Success stays that Success   *)
(* and a Failure that Failure.                                             *)
C14_BlankSubmitKeepsState ==
    /\ [][HandleSubmit /\ WhitespaceOnly(formData.text) =>
            /\ alertCount' = alertCount + 1
            /\ UNCHANGED <<isLoading, result, error, pending, issued, log>>
            /\ (IsSuccess => IsSuccess') /\ (IsFailure => IsFailure')]_vars
    /\ [][alertCount' # alertCount =>
            /\ WhitespaceOnly(formData.text)
            /\ UNCHANGED <<isLoading, result, error, pending, issued, log>>]_vars
    /\ [](WhitespaceOnly(formData.text) /\ nEvents < MaxEvents =>
            ENABLED (HandleSubmit /\ UNCHANGED <<isLoading, result, error>>))

C14_Witness ==
    /\ alertCount = 1
    /\ nEvents = 4
    /\ formData.text = <<" ">>
    /\ issued = 1
    /\ IsFailure
    /\ error = Some("Request Error: Converting circular structure to JSON")

(* C15: the request of a submission is the form as it is at that submit,   *)
(* field by field, and a request in flight keeps the payload it was sent   *)
(* with while the form is edited, while other calls are made and while     *)
(* other calls settle.                                                     *)
C15_PayloadIsFormAtSubmit ==
    /\ [][issued' # issued =>
            /\ issued' \in DOMAIN pending'
            /\ pending'[issued'] = formData
            /\ formData' = formData]_vars
    /\ [][\A c \in DOMAIN pending \cap DOMAIN pending' : pending'[c] = pending[c]]_vars
    /\ [](\A c \in InFlight : ~WhitespaceOnly(pending[c].text))

C15_Witness ==
    /\ InFlight = {1, 2}
    /\ pending[1].text = <<"a">>
    /\ pending[2].text = <<" ", "a", " ">>
    /\ formData = pending[2]

(* C16 as stated: in every request sent no field is unset: max_tokens is   *)
(* 256 when the form's field was cleared, and the form's value otherwise;  *)
(* temperature and use_legacy are present and platform is one of the four  *)
(* platforms.                                                              *)
C16_DefaultsApplied ==
    [][issued' # issued =>
         LET p == pending'[issued'] IN
         /\ p.platform \in platforms
         /\ p.temperature \in Int
         /\ p.use_legacy \in BOOLEAN
         /\ p.max_tokens = IF IsNull(formData.max_tokens) THEN Some(256)
                           ELSE formData.max_tokens]_vars

(* C17: a fulfilled response is published as Success whatever its body     *)
(* says: the settlement of a body with fallback_used true and a reason     *)
(* publishes Success for its call, result carries both fields, and error   *)
(* is not written.                                                         *)
C17_FallbackIsSuccess ==
    [][\A c \in CallIds : \A o \in Fulfilled :
          SettlesNow(c) /\ Resume(c, o) =>
            /\ log'[Len(log')] = [call |-> c, ev |-> "Success"]
            /\ ~IsNull(result')
            /\ Val(result').fallback_used = o.response.data.fallback_used
            /\ Val(result').reason = o.response.data.reason
            /\ error' = error
            /\ IsNull(error) => IsSuccess']_vars

C17_Witness ==
    /\ issued = 2
    /\ InFlight = {}
    /\ log = <<[call |-> 1, ev |-> "Loading"], [call |-> 1, ev |-> "Failure"],
               [call |-> 2, ev |-> "Loading"], [call |-> 2, ev |-> "Success"]>>
    /\ IsSuccess
    /\ Val(result).fallback_used
    /\ ~IsNull(Val(result).reason)

(* C18 as stated: whenever a call is in flight the state is Loading, with  *)
(* result and error null, and isLoading becomes false only in a step after *)
(* which no call is in flight.                                             *)
C18_InFlightIsLoading ==
    /\ [](InFlight # {} => IsLoadingOnly)
    /\ [][isLoading /\ ~isLoading' => DOMAIN pending' = {}]_vars

(* C19: handleReset with a call in flight leaves isLoading, the calls in   *)
(* flight and what was published as they are, so a Loading state stays     *)
(* Loading; the call then settles as any other, publishing its Success or  *)
(* its Failure, and the state after that settlement is not Idle.           *)
C19_ResetInFlight ==
    /\ [][HandleReset /\ DOMAIN pending # {} =>
            /\ UNCHANGED <<isLoading, pending, issued, log>>
            /\ IsLoadingOnly => IsLoadingOnly']_vars
    /\ [](InFlight # {} => ENABLED (HandleReset /\ UNCHANGED <<isLoading, pending>>))
    /\ [](IsLoadingOnly /\ InFlight # {} => ENABLED (HandleReset /\ IsLoadingOnly'))
    /\ [][\A c \in CallIds :
            SettlesNow(c) =>
              /\ ~IsIdle'
              /\ log'[Len(log')].call = c
              /\ log'[Len(log')].ev \in {"Success", "Failure"}]_vars

C19_Witness ==
    /\ log = <<[call |-> 1, ev |-> "Loading"], [call |-> 2, ev |-> "Loading"],
               [call |-> 1, ev |-> "Failure"], [call |-> 2, ev |-> "Success"]>>
    /\ IsSuccess

=============================================================================
